---- MODULE Spec2Model ----
(***************************************************************************)
(* Restaurant recommendation agent (src/restaurant_agent.py) and its web   *)
(* front end (src/app.py): the query parser, the venue constraint          *)
(* predicate, the utility ranker and the search state machine.             *)
(*                                                                         *)
(* Text is modelled character by character: a query is a TLA+ string and   *)
(* the regular expressions, lower(), capitalize() and title() are computed *)
(* on its characters.  Python floats are modelled as exact numbers plus    *)
(* the two special values inf and nan; money is in whole dollars (every    *)
(* amount of the catalog and every amount the parser can read is whole),   *)
(* scores are in hundredths.  A trace entry is the string the code builds, *)
(* without the wall-clock time stamp that log_event puts in front of it;   *)
(* the few characters of the messages that lie outside Latin-1 are written *)
(* by the ASCII stand-ins named where they occur.                          *)
(***************************************************************************)
EXTENDS Integers, Sequences, FiniteSets, TLC

VARIABLES
    state,            \* agent -> SearchState value                  (self.state)
    constraints,      \* agent -> None or Some(Constraints)          (self.constraints)
    database,         \* agent -> sequence of venues                 (self.database)
    candidates,       \* agent -> sequence of venues                 (self.candidates)
    filtered_results, \* agent -> sequence of venues                 (self.filtered_results)
    ranked_results,   \* agent -> sequence of result triples         (self.ranked_results)
    log,              \* agent -> sequence of trace entries          (self.log)
    logger,           \* parser -> sequence of trace entries         (NLPParser.logger)
    pc,               \* agent -> position of its search() call
    queries,          \* agent -> the queries search() was called with, oldest first
    returned,         \* agent -> the values search() returned, oldest first
    displayed         \* agent -> the outcomes of its display_results() calls, oldest first

vars == <<state, constraints, database, candidates, filtered_results, ranked_results,
          log, logger, pc, queries, returned, displayed>>

(***************************************************************************)
(* Python values                                                           *)
(***************************************************************************)
None == <<>>
Some(x) == <<x>>
Val(o) == o[1]

\* F(e), with e evaluated once and F applied to its value
Let(e, F(_)) == CHOOSE r \in {F(v) : v \in {e}} : TRUE
Let2(e1, e2, F(_, _)) == CHOOSE r \in {F(v, w) : v \in {e1}, w \in {e2}} : TRUE

Fin(n) == [k |-> "fin", v |-> n]
Inf == [k |-> "inf", v |-> 0]
NaN == [k |-> "nan", v |-> 0]

(***************************************************************************)
(* Characters and strings                                                  *)
(***************************************************************************)
UpperChars == "ABCDEFGHIJKLMNOPQRSTUVWXYZ"
LowerChars == "abcdefghijklmnopqrstuvwxyz"
DecimalChars == "0123456789"

Ch(s, i) == IF i >= 1 /\ i <= Len(s) THEN SubSeq(s, i, i) ELSE ""
CharsOf(s) == {Ch(s, i) : i \in 1..Len(s)}
IndexIn(s, c) == CHOOSE i \in 1..Len(s) : Ch(s, i) = c

UpperSet == CharsOf(UpperChars)
LowerSet == CharsOf(LowerChars)
LetterSet == UpperSet \cup LowerSet
\* \d of a str pattern, and the characters int() and float() read
DecimalSet == CharsOf(DecimalChars)
\* str.isdigit() also accepts digits that are not decimal, such as superscript two
DigitSet == DecimalSet \cup {"²"}
\* \w of a str pattern: alphanumerics and the underscore
WordSet == LetterSet \cup DigitSet \cup {"_"}
\* \s of a str pattern
SpaceSet == {" ", "\n", "\t"}

LowerCh(c) == IF c \in UpperSet THEN Ch(LowerChars, IndexIn(UpperChars, c)) ELSE c
UpperCh(c) == IF c \in LowerSet THEN Ch(UpperChars, IndexIn(LowerChars, c)) ELSE c

\* str.lower(), computed on the two halves of the string
RECURSIVE lower(_)
lower(str) ==
    Let(str, LAMBDA s :
        IF Len(s) <= 1 THEN LowerCh(s)
        ELSE lower(SubSeq(s, 1, Len(s) \div 2)) \o lower(SubSeq(s, (Len(s) \div 2) + 1, Len(s))))

\* str.capitalize(): first character upper-cased, the rest lower-cased
capitalize(str) ==
    Let(str, LAMBDA s : IF s = "" THEN "" ELSE UpperCh(Head(s)) \o lower(Tail(s)))

\* str.title(): a letter is upper-cased when the character before it is not a
\* letter, and lower-cased otherwise
RECURSIVE TitleRange(_, _, _)
TitleRange(s, from, to) ==
    Let2(from, to, LAMBDA i, j :
        IF i > j THEN ""
        ELSE IF i = j
             THEN (IF Ch(s, i - 1) \in LetterSet THEN LowerCh(Ch(s, i)) ELSE UpperCh(Ch(s, i)))
        ELSE TitleRange(s, i, (i + j) \div 2) \o TitleRange(s, ((i + j) \div 2) + 1, j))
title(str) == Let(str, LAMBDA s : TitleRange(s, 1, Len(s)))

\* lit occurs in s at position i
StartsAt(s, i, lit) ==
    /\ i >= 1
    /\ i + Len(lit) - 1 <= Len(s)
    /\ SubSeq(s, i, i + Len(lit) - 1) = lit

\* the `in` operator on strings
Contains(s, lit) == \E i \in 1..Len(s) : StartsAt(s, i, lit)

Min(S) == CHOOSE x \in S : \A y \in S : x <= y

\* the position after the longest run of characters of class cls that starts at i
RunEnd(s, i, cls) ==
    Let({j \in i..Len(s) : Ch(s, j) \notin cls}, LAMBDA stops :
        IF stops = {} THEN Len(s) + 1 ELSE Min(stops))

StripZeros(d) == SubSeq(d, RunEnd(d, 1, {"0"}), Len(d))

RECURSIVE DecimalValue(_)
DecimalValue(digits) ==
    Let(digits, LAMBDA d :
        IF d = "" THEN 0
        ELSE 10 * DecimalValue(SubSeq(d, 1, Len(d) - 1))
             + (IndexIn(DecimalChars, Ch(d, Len(d))) - 1))

\* int(num_str) of a string for which isdigit() holds: a ValueError (None here)
\* when a digit of it is not a decimal digit
int(d) == IF CharsOf(d) \subseteq DecimalSet THEN Some(DecimalValue(d)) ELSE None

\* float(d) of a digit string: round-to-nearest overflows to inf from
\* 2^1024 - 2^970 = 1.797693...e308 on, a number of 309 digits
float(d) ==
    Let(StripZeros(d), LAMBDA sig :
        IF \/ Len(sig) > 309
           \/ Len(sig) = 309 /\ DecimalValue(SubSeq(sig, 1, 4)) >= 1798
        THEN Inf
        ELSE Fin(DecimalValue(sig)))

(***************************************************************************)
(* str() and format() of numbers                                           *)
(***************************************************************************)
RECURSIVE NatToStr(_)
NatToStr(nat) ==
    Let(nat, LAMBDA n :
        IF n < 10 THEN Ch(DecimalChars, n + 1)
        ELSE NatToStr(n \div 10) \o Ch(DecimalChars, (n % 10) + 1))

IntToStr(n) == IF n < 0 THEN "-" \o NatToStr(-n) ELSE NatToStr(n)

\* a number given in tenths, as str() of the float writes it: 45 -> "4.5"
TenthsToStr(n) == NatToStr(n \div 10) \o "." \o NatToStr(n % 10)

\* a number given in hundredths, as format(x, ".2f") writes it: 7320 -> "73.20"
HundredthsAbs(n) ==
    NatToStr(n \div 100) \o "." \o NatToStr((n % 100) \div 10) \o NatToStr(n % 10)
HundredthsToStr(n) == IF n < 0 THEN "-" \o HundredthsAbs(-n) ELSE HundredthsAbs(n)

\* str() of a float holding a whole number below 1e16 (from there on str()
\* writes an exponent): 65.0 -> "65.0"
FloatToStr(f) ==
    CASE f.k = "inf" -> "inf"
      [] f.k = "nan" -> "nan"
      [] OTHER -> IntToStr(f.v) \o ".0"

\* format(f, ".2f") of a float holding a whole number
FloatToStr2f(f) ==
    CASE f.k = "inf" -> "inf"
      [] f.k = "nan" -> "nan"
      [] OTHER -> IntToStr(f.v) \o ".00"

\* str() of an optional string, and of an optional number
OptStr(o) == IF o = None THEN "None" ELSE Val(o)
OptFloatStr(o) == IF o = None THEN "None" ELSE FloatToStr(Val(o))
OptIntStr(o) == IF o = None THEN "None" ELSE IntToStr(Val(o))

\* ', '.join(items)
RECURSIVE join(_)
join(list) ==
    Let(list, LAMBDA items :
        IF items = <<>> THEN ""
        ELSE IF Len(items) = 1 THEN items[1]
        ELSE items[1] \o ", " \o join(Tail(items)))

\* str() of a list of strings: ['a', 'b']
RECURSIVE QuotedJoin(_)
QuotedJoin(list) ==
    Let(list, LAMBDA items :
        IF items = <<>> THEN ""
        ELSE IF Len(items) = 1 THEN "'" \o items[1] \o "'"
        ELSE "'" \o items[1] \o "', " \o QuotedJoin(Tail(items)))
ListStr(items) == "[" \o QuotedJoin(items) \o "]"

(***************************************************************************)
(* PART 1: Constraints                                                     *)
(***************************************************************************)
\* Constraints(): every field None, special_requests an empty list
Constraints ==
    [cuisine |-> None, location |-> None, price_max |-> None, party_size |-> None,
     day |-> None, time |-> None, special_requests |-> <<>>]

\* Constraints.__str__ ("<=" stands for the character U+2264 of the source)
ConstraintsStr(c) ==
    "Cuisine=" \o OptStr(c.cuisine) \o ", Location=" \o OptStr(c.location)
    \o ", Price<=$" \o OptFloatStr(c.price_max) \o ", Party=" \o OptIntStr(c.party_size)
    \o ", Time=" \o OptStr(c.day) \o " " \o OptStr(c.time)
    \o ", Special=" \o ListStr(c.special_requests)

\* truth value of an optional string, float and int (None, "", 0.0 and 0 are false)
TruthyStr(o) == o # None /\ Val(o) # ""
TruthyFloat(o) == o # None /\ Val(o) # Fin(0)
TruthyInt(o) == o # None /\ Val(o) # 0

(***************************************************************************)
(* PART 2: NLPParser                                                       *)
(***************************************************************************)
CUISINE_KEYWORDS ==
    <<"turkish", "italian", "chinese", "mexican", "indian", "french", "japanese">>
DayNames ==
    <<"monday", "tuesday", "wednesday", "thursday", "friday", "saturday", "sunday">>
word_to_num == [w \in {"one", "two", "three", "four", "five"} |->
    CASE w = "one" -> 1 [] w = "two" -> 2 [] w = "three" -> 3
      [] w = "four" -> 4 [] w = "five" -> 5]

\* re.search: of the matches found position by position, the leftmost
Leftmost(found) ==
    Let({i \in DOMAIN found : found[i] # None}, LAMBDA hits :
        IF hits = {} THEN None ELSE found[Min(hits)])

\* r'<prep>\s+(downtown\s+\w+(?:\s+\w+)?)' matched at position i: group 1
LocationAt(s, i, prep) ==
    IF ~StartsAt(s, i, prep) THEN None
    ELSE
    LET j1 == i + Len(prep)
        j2 == RunEnd(s, j1, SpaceSet)
        j3 == j2 + Len("downtown")
        j4 == RunEnd(s, j3, SpaceSet)
        j5 == RunEnd(s, j4, WordSet)
        j6 == RunEnd(s, j5, SpaceSet)
        j7 == RunEnd(s, j6, WordSet)
        end == IF j6 > j5 /\ j7 > j6 THEN j7 ELSE j5
    IN  IF j2 > j1 /\ StartsAt(s, j2, "downtown") /\ j4 > j3 /\ j5 > j4
        THEN Some(SubSeq(s, j2, end - 1))
        ELSE None
InDowntownAt(s, i) == LocationAt(s, i, "in")
AtDowntownAt(s, i) == LocationAt(s, i, "at")
\* LOCATION_PATTERNS, tried in order: the first pattern that matches anywhere wins
LOCATION_PATTERNS(s) ==
    Let(Leftmost([i \in 1..Len(s) |-> InDowntownAt(s, i)]), LAMBDA first :
        IF first # None THEN first ELSE Leftmost([i \in 1..Len(s) |-> AtDowntownAt(s, i)]))

\* PRICE_PATTERN = r'under\s+\$?(\d+)' matched at position i: group 1
PriceAt(s, i) ==
    IF ~StartsAt(s, i, "under") THEN None
    ELSE
    LET j1 == i + Len("under")
        j2 == RunEnd(s, j1, SpaceSet)
        j3 == IF Ch(s, j2) = "$" THEN j2 + 1 ELSE j2
        j4 == RunEnd(s, j3, DecimalSet)
    IN  IF j2 > j1 /\ j4 > j3
        THEN Some(SubSeq(s, j3, j4 - 1))
        ELSE None
PRICE_PATTERN(s) == Leftmost([i \in 1..Len(s) |-> PriceAt(s, i)])

\* PARTY_PATTERN = r'for\s+(\w+|\d+)\s+people?' matched at position i: group 1
PartyAt(s, i) ==
    IF ~StartsAt(s, i, "for") THEN None
    ELSE
    LET j1 == i + Len("for")
        j2 == RunEnd(s, j1, SpaceSet)
        j3 == RunEnd(s, j2, WordSet)
        j4 == RunEnd(s, j3, SpaceSet)
    IN  IF j2 > j1 /\ j3 > j2 /\ j4 > j3 /\ StartsAt(s, j4, "peopl")
        THEN Some(SubSeq(s, j2, j3 - 1))
        ELSE None
PARTY_PATTERN(s) == Leftmost([i \in 1..Len(s) |-> PartyAt(s, i)])

\* DAY_PATTERN = r'(monday|...|sunday)' matched at position i: group 1
DayAt(s, i) ==
    Let({d \in 1..Len(DayNames) : StartsAt(s, i, DayNames[d])}, LAMBDA ds :
        IF ds = {} THEN None ELSE Some(DayNames[Min(ds)]))
DAY_PATTERN(s) == Leftmost([i \in 1..Len(s) |-> DayAt(s, i)])

\* TIME_PATTERN = r'at\s+(\d{1,2}:\d{2}\s*(?:am|pm)?)' matched at position i: group 1
TimeAt(s, i) ==
    IF ~StartsAt(s, i, "at") THEN None
    ELSE
    LET j1 == i + Len("at")
        j2 == RunEnd(s, j1, SpaceSet)
        colon == IF Ch(s, j2 + 1) \in DecimalSet THEN j2 + 2 ELSE j2 + 1
        j3 == colon + 3
        j4 == RunEnd(s, j3, SpaceSet)
        end == IF StartsAt(s, j4, "am") \/ StartsAt(s, j4, "pm") THEN j4 + 2 ELSE j4
    IN  IF /\ j2 > j1
           /\ Ch(s, j2) \in DecimalSet /\ Ch(s, colon) = ":"
           /\ Ch(s, colon + 1) \in DecimalSet /\ Ch(s, colon + 2) \in DecimalSet
        THEN Some(SubSeq(s, j2, end - 1))
        ELSE None
TIME_PATTERN(s) == Leftmost([i \in 1..Len(s) |-> TimeAt(s, i)])

\* lines 153-157: the first keyword of CUISINE_KEYWORDS that occurs in the query
ExtractCuisine(query_lower) ==
    Let({k \in 1..Len(CUISINE_KEYWORDS) : Contains(query_lower, CUISINE_KEYWORDS[k])},
        LAMBDA ks : IF ks = {} THEN None ELSE Some(capitalize(CUISINE_KEYWORDS[Min(ks)])))

\* lines 160-165
ExtractLocation(query_lower) ==
    Let(LOCATION_PATTERNS(query_lower), LAMBDA m :
        IF m = None THEN None ELSE Some(title(Val(m))))

\* lines 168-171
ExtractPrice(query_lower) ==
    Let(PRICE_PATTERN(query_lower), LAMBDA m :
        IF m = None THEN None ELSE Some(float(Val(m))))

\* lines 176-182: [raised |-> TRUE] when int() raises ValueError
PartySize(num_str) ==
    IF CharsOf(num_str) \subseteq DigitSet
    THEN [raised |-> int(num_str) = None, value |-> int(num_str)]
    ELSE [raised |-> FALSE,
          value |-> Some(IF num_str \in DOMAIN word_to_num THEN word_to_num[num_str] ELSE 2)]

\* lines 174-183
ExtractParty(query_lower) ==
    Let(PARTY_PATTERN(query_lower), LAMBDA m :
        IF m = None THEN [raised |-> FALSE, value |-> None] ELSE PartySize(Val(m)))

\* lines 186-189
ExtractDay(query_lower) ==
    Let(DAY_PATTERN(query_lower), LAMBDA m :
        IF m = None THEN None ELSE Some(capitalize(Val(m))))

\* lines 192-195
ExtractTime(query_lower) == TIME_PATTERN(query_lower)

\* lines 201-207: the view tokens found, garden before street
ExtractView(query_lower) ==
    (IF Contains(query_lower, "garden") THEN <<"garden">> ELSE <<>>)
    \o (IF Contains(query_lower, "street") THEN <<"street">> ELSE <<>>)

\* what lines 152-208 find in the lower-cased query, field by field
Extracted(query_lower) ==
    [cuisine |-> ExtractCuisine(query_lower),
     location |-> ExtractLocation(query_lower),
     price_max |-> ExtractPrice(query_lower),
     party |-> ExtractParty(query_lower),
     day |-> ExtractDay(query_lower),
     time |-> ExtractTime(query_lower),
     window |-> Contains(query_lower, "window"),
     view |-> ExtractView(query_lower)]

\* one entry of NLPParser.logger when the extraction found something
NlpEntry(what, o) == IF o = None THEN <<>> ELSE <<"[NLP] Extracted " \o what \o ": " \o Val(o)>>

\* line 148: the entry every call of parse starts with
ParsingEntry(q) == "[NLP] Parsing query: '" \o q \o "'"

\* the entries logged up to the party size (lines 148-171), and from it on
LoggedBefore(q, x) ==
    <<ParsingEntry(q)>>
    \o NlpEntry("cuisine", x.cuisine)
    \o NlpEntry("location", x.location)
    \o (IF x.price_max = None THEN <<>>
        ELSE <<"[NLP] Extracted price max: $" \o FloatToStr(Val(x.price_max))>>)
LoggedAfter(x) ==
    (IF x.party.value = None THEN <<>>
     ELSE <<"[NLP] Extracted party size: " \o IntToStr(Val(x.party.value))>>)
    \o NlpEntry("day", x.day)
    \o NlpEntry("time", x.time)
    \o (IF x.window THEN <<"[NLP] Extracted special request: window seating">> ELSE <<>>)
    \o (IF x.view # <<>> THEN <<"[NLP] Extracted view preference: " \o join(x.view)>> ELSE <<>>)

\* lines 198-208
SpecialRequests(x) ==
    (IF x.window THEN <<"window seating">> ELSE <<>>)
    \o (IF x.view # <<>> THEN <<"view: " \o join(x.view)>> ELSE <<>>)

\* the result of parse from what was extracted
ParseResult(q, x) ==
    IF x.party.raised
    THEN [raised |-> TRUE, constraints |-> Constraints, logged |-> LoggedBefore(q, x)]
    ELSE [raised |-> FALSE,
          constraints |-> [cuisine |-> x.cuisine, location |-> x.location,
                           price_max |-> x.price_max, party_size |-> x.party.value,
                           day |-> x.day, time |-> x.time,
                           special_requests |-> SpecialRequests(x)],
          logged |-> LoggedBefore(q, x) \o LoggedAfter(x)]

\* NLPParser.parse: the Constraints it returns and the entries it appends to
\* self.logger; when int() raises, the entries appended before the exception
parse(q) ==
    Let(lower(q), LAMBDA query_lower :
        Let(Extracted(query_lower), LAMBDA x : ParseResult(q, x)))

(***************************************************************************)
(* PART 1 (continued): Restaurant.matches_constraints                      *)
(* A venue is a record: avg_price_per_person in whole dollars, rating and  *)
(* distance_from_center in tenths, availability a function from the days   *)
(* that have slots to the list of slots.                                    *)
(***************************************************************************)
\* the marks U+2713 and U+2717 in front of a reason
PassMark == "[v]"
FailMark == "[x]"

\* a <= b on floats
FloatLe(a, b) ==
    CASE a.k = "nan" \/ b.k = "nan" -> FALSE
      [] b.k = "inf" -> TRUE
      [] a.k = "inf" -> FALSE
      [] OTHER -> a.v <= b.v

\* self.avg_price_per_person * constraints.party_size
total_cost(r, c) == Fin(r.avg_price_per_person * Val(c.party_size))

\* lines 77-83
CuisineCheck(r, c) ==
    IF ~TruthyStr(c.cuisine) THEN <<>>
    ELSE IF lower(r.cuisine) = lower(Val(c.cuisine))
         THEN <<[ok |-> TRUE, reason |-> PassMark \o " Cuisine: " \o r.cuisine]>>
         ELSE <<[ok |-> FALSE, reason |-> FailMark \o " Cuisine: " \o r.cuisine
                                          \o " (need " \o Val(c.cuisine) \o ")"]>>

\* a variant of the location check that looks for the city only
LocationCheckCityOnly(r, c) ==
    IF ~TruthyStr(c.location) THEN <<>>
    ELSE IF Contains(lower(r.location), "baltimore")
         THEN <<[ok |-> TRUE, reason |-> PassMark \o " Location: " \o r.location]>>
         ELSE <<[ok |-> FALSE, reason |-> FailMark \o " Location: " \o r.location]>>

\* lines 86-92
LocationCheck(r, c) ==
    IF ~TruthyStr(c.location) THEN <<>>
    ELSE IF Let(lower(r.location), LAMBDA loc :
                Contains(loc, "downtown") /\ Contains(loc, "baltimore"))
         THEN <<[ok |-> TRUE, reason |-> PassMark \o " Location: " \o r.location]>>
         ELSE <<[ok |-> FALSE, reason |-> FailMark \o " Location: " \o r.location]>>

\* the guard of line 95 (and of lines 420 and 445)
PriceGuard(c) == TruthyFloat(c.price_max) /\ TruthyInt(c.party_size)

\* the text of lines 98 and 101 after the mark
PriceReason(r, c, sign) ==
    " Price: $" \o FloatToStr2f(total_cost(r, c)) \o " for "
    \o IntToStr(Val(c.party_size)) \o " " \o sign \o " $" \o FloatToStr(Val(c.price_max))

\* a variant of the price check: the price per person, not the total, is
\* compared with price_max
PriceCheckPerPerson(r, c) ==
    IF ~PriceGuard(c) THEN <<>>
    ELSE IF FloatLe(Fin(r.avg_price_per_person), Val(c.price_max))
         THEN <<[ok |-> TRUE, reason |-> PassMark \o PriceReason(r, c, "<=")]>>
         ELSE <<[ok |-> FALSE, reason |-> FailMark \o PriceReason(r, c, ">")]>>

\* lines 95-102 ("<=" stands for the character U+2264 of the source)
PriceCheck(r, c) ==
    IF ~PriceGuard(c) THEN <<>>
    ELSE IF FloatLe(total_cost(r, c), Val(c.price_max))
         THEN <<[ok |-> TRUE, reason |-> PassMark \o PriceReason(r, c, "<=")]>>
         ELSE <<[ok |-> FALSE, reason |-> FailMark \o PriceReason(r, c, ">")]>>

\* self.availability.get(day, [])
day_avail(r, day) == IF day \in DOMAIN r.availability THEN r.availability[day] ELSE <<>>

\* lines 105-112
AvailabilityCheck(r, c) ==
    IF ~(TruthyStr(c.day) /\ TruthyStr(c.time)) THEN <<>>
    ELSE IF Let(day_avail(r, Val(c.day)), LAMBDA slots :
                \E i \in 1..Len(slots) : slots[i] = Val(c.time))
         THEN <<[ok |-> TRUE, reason |-> PassMark \o " Available: " \o Val(c.day)
                                         \o " at " \o Val(c.time)]>>
         ELSE <<[ok |-> FALSE, reason |-> FailMark \o " Not available: " \o Val(c.day)
                                          \o " at " \o Val(c.time)]>>

\* lines 115-121
WindowCheck(r, c) ==
    IF ~Contains(lower(ListStr(c.special_requests)), "window") THEN <<>>
    ELSE IF r.has_window_seating /\ r.window_view # <<>>
         THEN <<[ok |-> TRUE, reason |-> PassMark \o " Window seating: View of "
                                         \o join(r.window_view)]>>
         ELSE <<[ok |-> FALSE, reason |-> FailMark \o " No window seating or view available"]>>

\* the checks that were evaluated, in the order the code evaluates them
Checks(r, c) ==
    CuisineCheck(r, c) \o LocationCheck(r, c) \o PriceCheck(r, c)
    \o AvailabilityCheck(r, c) \o WindowCheck(r, c)

\* a variant of all(matches): any(matches)
AnyCheckOk(checks) == \E i \in 1..Len(checks) : checks[i].ok

\* all(matches)
all(checks) == \A i \in 1..Len(checks) : checks[i].ok

\* Restaurant.matches_constraints: (all(matches), reasons)
matches_constraints(r, c) ==
    Let(Checks(r, c), LAMBDA checks :
        [matches |-> all(checks),
         reasons |-> [i \in 1..Len(checks) |-> checks[i].reason]])

(***************************************************************************)
(* PART 3: create_mock_database                                            *)
(***************************************************************************)
Venue(name, cuisine, location, price_range, price, rating, thursday, friday, window, view, distance) ==
    [name |-> name, cuisine |-> cuisine, location |-> location,
     price_range |-> price_range, avg_price_per_person |-> price, rating |-> rating,
     availability |-> [d \in {"Thursday", "Friday"} |->
                          IF d = "Thursday" THEN thursday ELSE friday],
     has_window_seating |-> window, window_view |-> view,
     distance_from_center |-> distance]

create_mock_database ==
    << Venue("Istanbul Grill", "Turkish", "Downtown Baltimore, MD", "$$", 28, 45,
             <<"6:00 pm", "6:30 pm", "7:00 pm", "7:30 pm", "8:00 pm">>,
             <<"6:00 pm", "7:00 pm", "8:00 pm">>, TRUE, <<"street">>, 3),
       Venue("Anatolian Kitchen", "Turkish", "Downtown Baltimore, MD", "$$", 32, 47,
             <<"5:30 pm", "6:00 pm", "7:30 pm", "8:30 pm">>,
             <<"6:00 pm", "7:00 pm">>, TRUE, <<"garden", "street">>, 5),
       Venue("Bosphorus Cafe", "Turkish", "Downtown Baltimore, MD", "$", 22, 42,
             <<"6:00 pm", "7:00 pm", "8:00 pm">>,
             <<"6:30 pm", "7:30 pm">>, FALSE, <<>>, 8),
       Venue("Sultan's Table", "Turkish", "Downtown Baltimore, MD", "$$$", 45, 48,
             <<"6:00 pm", "6:30 pm", "7:30 pm">>,
             <<"7:00 pm", "8:00 pm">>, TRUE, <<"garden">>, 2),
       Venue("Mediterranean Breeze", "Mediterranean", "Downtown Baltimore, MD", "$$", 30, 44,
             <<"7:30 pm", "8:00 pm">>,
             <<"6:00 pm", "7:00 pm">>, TRUE, <<"street">>, 4),
       Venue("Turkish Delight", "Turkish", "Harbor East, Baltimore, MD", "$$", 26, 43,
             <<"7:30 pm", "8:00 pm">>,
             <<"6:00 pm", "7:00 pm">>, TRUE, <<"harbor">>, 12) >>

(***************************************************************************)
(* PART 4: RestaurantAgent - ranking                                       *)
(***************************************************************************)
\* num / den rounded to the nearest integer, ties to the even one (den > 0)
RoundHalfEven(num, den) ==
    LET q == num \div den
        r == num - q * den
    IN  IF 2 * r < den THEN q
        ELSE IF 2 * r > den THEN q + 1
        ELSE IF q % 2 = 0 THEN q ELSE q + 1

\* max(0, 20 - distance_from_center * 10), in hundredths
distance_score(r) ==
    IF 2000 - r.distance_from_center * 100 > 0 THEN 2000 - r.distance_from_center * 100 ELSE 0

\* lines 430-436, in hundredths
window_bonus(r) ==
    IF r.has_window_seating
    THEN 1500 + (IF \E i \in 1..Len(r.window_view) : r.window_view[i] = "garden" THEN 1000 ELSE 0)
              + (IF \E i \in 1..Len(r.window_view) : r.window_view[i] = "street" THEN 500 ELSE 0)
    ELSE 0

\* lines 421-423: price_efficiency * 20, the term added to the score, as the
\* fraction num / den. (inf - total_cost) / inf is nan, and a division by 0.0
\* raises ZeroDivisionError.
price_term(r, c) ==
    Let(Val(c.price_max), LAMBDA price_max :
        IF price_max.k = "inf" THEN [k |-> "nan", num |-> 0, den |-> 1]
        ELSE IF price_max.v = 0 THEN [k |-> "ZeroDivisionError", num |-> 0, den |-> 0]
        ELSE [k |-> "fin", num |-> 20 * (price_max.v - total_cost(r, c).v),
              den |-> price_max.v])

\* RestaurantAgent._calculate_utility: round(score, 2) as a float in hundredths.
\* Every sum with nan is nan.
calculate_utility(r, c) ==
    LET base == r.rating * 60 + distance_score(r) + window_bonus(r)
    IN  IF ~PriceGuard(c) THEN Fin(base)
        ELSE Let(price_term(r, c), LAMBDA term :
                 CASE term.k = "fin" -> Fin(base + RoundHalfEven(100 * term.num, term.den))
                   [] term.k = "nan" -> NaN
                   [] OTHER -> [k |-> term.k, v |-> 0])

ScoreStr(u) == IF u.k = "fin" THEN HundredthsToStr(u.v) ELSE u.k

\* price_max - total_cost, formatted with ".2f"
SavingsStr(r, c) ==
    IF Val(c.price_max).k = "inf" THEN "inf"
    ELSE IntToStr(Val(c.price_max).v - total_cost(r, c).v) \o ".00"

\* RestaurantAgent._generate_ranking_explanation ("*" stands for the star U+2B50)
generate_ranking_explanation(r, c) ==
    <<"Rating: " \o TenthsToStr(r.rating) \o "* (contributes "
      \o TenthsToStr(r.rating * 6) \o " points)">>
    \o (IF PriceGuard(c)
        THEN <<"Price: $" \o FloatToStr2f(total_cost(r, c)) \o " for "
               \o IntToStr(Val(c.party_size)) \o " ($" \o SavingsStr(r, c) \o " under budget)">>
        ELSE <<>>)
    \o <<"Distance: " \o TenthsToStr(r.distance_from_center) \o " miles from downtown center">>
    \o (IF r.has_window_seating THEN <<"Window view: " \o join(r.window_view)>> ELSE <<>>)

\* RestaurantAgent.log_event: the entry appended to self.log
log_event(message, level) == "[" \o level \o "] " \o message

\* a < b on floats, as the sort compares two keys: false when either is nan
FloatLt(a, b) ==
    CASE a.k = "nan" \/ b.k = "nan" -> FALSE
      [] a.k = "inf" -> FALSE
      [] b.k = "inf" -> TRUE
      [] OTHER -> a.v < b.v

\* a variant of the sort that is not stable: an item goes in front of the
\* first item whose key is less than or equal to its own
InsertDescBeforeEqual(list, item) ==
    Let2(list, item, LAMBDA sorted, x :
        Let({i \in 1..Len(sorted) : FloatLe(sorted[i].score, x.score)}, LAMBDA le :
            Let(IF le = {} THEN Len(sorted) + 1 ELSE Min(le), LAMBDA at :
                SubSeq(sorted, 1, at - 1) \o <<x>> \o SubSeq(sorted, at, Len(sorted)))))

\* ranked.sort(key=lambda x: x[1], reverse=True): stable; an item goes in front
\* of the first item whose key is less than its own, so a list whose keys are
\* all nan keeps its order
InsertDesc(list, item) ==
    Let2(list, item, LAMBDA sorted, x :
        Let({i \in 1..Len(sorted) : FloatLt(sorted[i].score, x.score)}, LAMBDA less :
            Let(IF less = {} THEN Len(sorted) + 1 ELSE Min(less), LAMBDA at :
                SubSeq(sorted, 1, at - 1) \o <<x>> \o SubSeq(sorted, at, Len(sorted)))))
RECURSIVE SortDesc(_)
SortDesc(list) ==
    Let(list, LAMBDA items :
        IF items = <<>> THEN <<>>
        ELSE InsertDesc(SortDesc(SubSeq(items, 1, Len(items) - 1)), items[Len(items)]))

\* one item of the ranked list: (restaurant, utility_score, explanation)
Ranked(r, c) ==
    [restaurant |-> r, score |-> calculate_utility(r, c),
     explanation |-> generate_ranking_explanation(r, c)]

\* lines 403-406: the entries logged for one item
RankEntries(x) ==
    <<log_event("\n" \o x.restaurant.name \o ":", "RANK"),
      log_event("  Total Utility Score: " \o ScoreStr(x.score), "RANK")>>
    \o [i \in 1..Len(x.explanation) |-> log_event("  " \o x.explanation[i], "RANK")]

RECURSIVE RankLog(_, _)
RankLog(items, from) ==
    Let(from, LAMBDA i :
        IF i > Len(items) THEN <<>>
        ELSE RankEntries(items[i]) \o RankLog(items, i + 1))

\* RestaurantAgent._rank_results: the list it returns and the entries it logs
rank_results(filtered, c) ==
    Let([i \in 1..Len(filtered) |-> Ranked(filtered[i], c)], LAMBDA items :
        [ranked |-> SortDesc(items), entries |-> RankLog(items, 1)])

(***************************************************************************)
(* PART 4: RestaurantAgent - the search pipeline                           *)
(* An agent is handled as the record of its fields; a step of search()     *)
(* maps the record before the step to the record after it.                 *)
(***************************************************************************)
\* SearchState
INITIAL == "initial"
NLP_PARSING == "nlp_parsing"
CONSTRAINT_EXTRACTION == "constraint_extraction"
DATA_RETRIEVAL == "data_retrieval"
FILTERING == "filtering"
RANKING == "ranking"
COMPLETE == "complete"
SearchState ==
    <<INITIAL, NLP_PARSING, CONSTRAINT_EXTRACTION, DATA_RETRIEVAL, FILTERING, RANKING, COMPLETE>>

\* "=" * 80
Rule == "================================================================================"

\* RestaurantAgent.__init__
NewAgent ==
    [state |-> INITIAL, database |-> create_mock_database, log |-> <<>>,
     constraints |-> None, candidates |-> <<>>, filtered_results |-> <<>>,
     ranked_results |-> <<>>]

\* the message of a state transition ("->" stands for the arrow U+2192 of the source)
TransitionEntry(old_state, new_state) ==
    log_event("State transition: " \o old_state \o " -> " \o new_state, "STATE")

\* a variant of transition_state that sets the state and logs nothing
TransitionUnlogged(old_state, new_state) == [entries |-> <<>>, state |-> new_state]

\* RestaurantAgent.transition_state: the entries it logs and the state it sets
transition_state(old_state, new_state) ==
    [entries |-> <<TransitionEntry(old_state, new_state)>>, state |-> new_state]

\* self, after transition_state(new_state)
Transit(agent, new_state) ==
    Let2(agent, transition_state(agent.state, new_state), LAMBDA self, t :
        [self EXCEPT !.log = @ \o t.entries, !.state = t.state])

\* self, after log_event(message, level)
Logged(self, message, level) == [self EXCEPT !.log = @ \o <<log_event(message, level)>>]

\* a variant of lines 344-346 that puts the instance back to INITIAL first
StepStartReset(self) ==
    Logged(Logged(Logged([self EXCEPT !.state = INITIAL], Rule, "SYSTEM"),
                  "RESTAURANT RECOMMENDATION AGENT STARTED", "SYSTEM"),
           Rule, "SYSTEM")

\* lines 344-346
StepStart(self) ==
    Logged(Logged(Logged(self, Rule, "SYSTEM"),
                  "RESTAURANT RECOMMENDATION AGENT STARTED", "SYSTEM"),
           Rule, "SYSTEM")

\* lines 349-351, given the parser's logger before the call: the agent and the
\* logger after it.  When parse raises, lines 350-351 assign and extend nothing.
StepParse(self, parser_logger, q) ==
    Let2(parse(q), Transit(self, NLP_PARSING), LAMBDA p, at :
        Let(parser_logger \o p.logged, LAMBDA after :
            IF p.raised
            THEN [raised |-> TRUE, self |-> at, logger |-> after]
            ELSE [raised |-> FALSE,
                  self |-> [at EXCEPT !.constraints = Some(p.constraints), !.log = @ \o after],
                  logger |-> after]))

\* lines 354-355
StepExtraction(agent) ==
    Let(agent, LAMBDA self :
        Logged(Transit(self, CONSTRAINT_EXTRACTION),
               "Extracted constraints: " \o ConstraintsStr(Val(self.constraints)), "CONSTRAINT"))

\* lines 358-360
StepRetrieval(agent) ==
    Let(agent, LAMBDA self :
        [Logged(Transit(self, DATA_RETRIEVAL),
                "Retrieved " \o IntToStr(Len(self.database)) \o " restaurants from database",
                "DATA")
         EXCEPT !.candidates = self.database])

\* a variant of line 365 that goes on with the list of the search before
FilterKeepOld(old_filtered) == old_filtered

\* line 365: the list the filter loop appends to
FilterStart(old_filtered) == <<>>

\* a variant of the loop body that keeps the venue whatever the verdict
FilterBodyKeepAll(acc, r, m) ==
    [kept |-> Append(acc.kept, r),
     entries |-> acc.entries \o <<log_event("\nEvaluating: " \o r.name, "FILTER")>>]

\* lines 368-377: one pass of the loop body on a venue with verdict m
FilterBody(acc, r, m) ==
    [kept |-> IF m.matches THEN Append(acc.kept, r) ELSE acc.kept,
     entries |-> acc.entries
         \o <<log_event("\nEvaluating: " \o r.name, "FILTER")>>
         \o [i \in 1..Len(m.reasons) |-> log_event("  " \o m.reasons[i], "FILTER")]
         \o <<IF m.matches
              THEN log_event("  " \o PassMark \o " PASS: All constraints satisfied", "FILTER")
              ELSE log_event("  " \o FailMark \o " FAIL: Some constraints not met", "FILTER")>>]

\* lines 367-377: the loop from candidate number `from` on; acc holds the
\* venues kept and the entries logged so far
RECURSIVE FilterLoop(_, _, _, _)
FilterLoop(cands, c, from, sofar) ==
    Let2(from, sofar, LAMBDA i, acc :
        IF i > Len(cands) THEN acc
        ELSE Let(matches_constraints(cands[i], c), LAMBDA m :
                 FilterLoop(cands, c, i + 1, FilterBody(acc, cands[i], m))))

\* lines 363-379
StepFiltering(agent) ==
    Let(agent, LAMBDA self :
        Let(FilterLoop(self.candidates, Val(self.constraints), 1,
                       [kept |-> FilterStart(self.filtered_results), entries |-> <<>>]),
            LAMBDA f :
                Logged([Logged(Transit(self, FILTERING),
                               "Starting constraint satisfaction filtering...", "FILTER")
                        EXCEPT !.filtered_results = f.kept, !.log = @ \o f.entries],
                       "\nFiltering complete: " \o IntToStr(Len(f.kept)) \o "/"
                       \o IntToStr(Len(self.candidates)) \o " restaurants passed", "FILTER")))

\* lines 382-384
StepRanking(agent) ==
    Let(agent, LAMBDA self :
        Let(rank_results(self.filtered_results, Val(self.constraints)), LAMBDA r :
            [Logged(Transit(self, RANKING), "Applying utility-based ranking...", "RANK")
             EXCEPT !.log = @ \o r.entries, !.ranked_results = r.ranked]))

\* lines 387-392; search() returns self.ranked_results
StepComplete(self) ==
    Logged(Logged(Logged(Transit(self, COMPLETE), Rule, "SYSTEM"),
                  "SEARCH COMPLETE", "SYSTEM"),
           Rule, "SYSTEM")

(***************************************************************************)
(* The callers: src/test_searches.py and src/app.py create agents and call *)
(* search() on them with any query text.  Calls on different agents may    *)
(* overlap (requests of the web application); an agent whose search()      *)
(* raised is not used again (every caller drops it).                       *)
(***************************************************************************)
Agents == {"agent1", "agent2"}

\* a variant in which every agent calls one parser
SharedParser(a) == "agent1"

\* the parser an agent calls: its own (self.parser = NLPParser())
ParserOf(a) == a

\* the number of search() calls the callers make in all
MaxSearches == 2

Nines10 == "9999999999"
Nines50 == Nines10 \o Nines10 \o Nines10 \o Nines10 \o Nines10
Nines310 == Nines50 \o Nines50 \o Nines50 \o Nines50 \o Nines50 \o Nines50 \o Nines10

FullSpecification ==
    "Find a Turkish restaurant in Downtown Baltimore, MD for two people \n"
    \o "    to have dinner under $65 on Thursday night at 7:30 pm with a table for two \n"
    \o "    near a window with a view of the garden or the street."

\* query texts: those of src/test_searches.py, and texts a user can type
Queries ==
    { "Turkish restaurant for 2 people under $50",
      FullSpecification,
      "somewhere nice tonight",
      "dinner for 2 people under $0",
      "dinner for 2 people under $" \o Nines310,
      "a table for ² people" }

Self(a) ==
    [state |-> state[a], database |-> database[a], log |-> log[a],
     constraints |-> constraints[a], candidates |-> candidates[a],
     filtered_results |-> filtered_results[a], ranked_results |-> ranked_results[a]]

SetSelf(a, self) ==
    /\ state' = [state EXCEPT ![a] = self.state]
    /\ database' = [database EXCEPT ![a] = self.database]
    /\ log' = [log EXCEPT ![a] = self.log]
    /\ constraints' = [constraints EXCEPT ![a] = self.constraints]
    /\ candidates' = [candidates EXCEPT ![a] = self.candidates]
    /\ filtered_results' = [filtered_results EXCEPT ![a] = self.filtered_results]
    /\ ranked_results' = [ranked_results EXCEPT ![a] = self.ranked_results]

RECURSIVE Started(_)
Started(as) ==
    IF as = {} THEN 0
    ELSE LET a == CHOOSE x \in as : TRUE IN Len(queries[a]) + Started(as \ {a})

\* the query of the search() call an agent is in, or was last in
query(a) == queries[a][Len(queries[a])]

Init ==
    /\ state = [a \in Agents |-> NewAgent.state]
    /\ database = [a \in Agents |-> NewAgent.database]
    /\ log = [a \in Agents |-> NewAgent.log]
    /\ constraints = [a \in Agents |-> NewAgent.constraints]
    /\ candidates = [a \in Agents |-> NewAgent.candidates]
    /\ filtered_results = [a \in Agents |-> NewAgent.filtered_results]
    /\ ranked_results = [a \in Agents |-> NewAgent.ranked_results]
    /\ logger = [a \in Agents |-> <<>>]
    /\ pc = [a \in Agents |-> "idle"]
    /\ queries = [a \in Agents |-> <<>>]
    /\ returned = [a \in Agents |-> <<>>]
    /\ displayed = [a \in Agents |-> <<>>]

\* a caller calls a.search(q); lines 344-346
SearchBegin(a, q) ==
    /\ pc[a] = "idle"
    /\ Started(Agents) < MaxSearches
    /\ queries' = [queries EXCEPT ![a] = Append(@, q)]
    /\ \E self \in {StepStart(Self(a))} : SetSelf(a, self)
    /\ pc' = [pc EXCEPT ![a] = "parsing"]
    /\ UNCHANGED <<logger, returned, displayed>>

\* Step 1: NLP Parsing
NlpParsing(a) ==
    /\ pc[a] = "parsing"
    /\ \E r \in {StepParse(Self(a), logger[ParserOf(a)], query(a))} :
           /\ SetSelf(a, r.self)
           /\ logger' = [logger EXCEPT ![ParserOf(a)] = r.logger]
           /\ pc' = [pc EXCEPT ![a] = IF r.raised THEN "raised" ELSE "extraction"]
    /\ UNCHANGED <<queries, returned, displayed>>

\* Step 2: Constraint extraction summary
ConstraintExtraction(a) ==
    /\ pc[a] = "extraction"
    /\ \E self \in {StepExtraction(Self(a))} : SetSelf(a, self)
    /\ pc' = [pc EXCEPT ![a] = "retrieval"]
    /\ UNCHANGED <<logger, queries, returned, displayed>>

\* Step 3: Data retrieval
DataRetrieval(a) ==
    /\ pc[a] = "retrieval"
    /\ \E self \in {StepRetrieval(Self(a))} : SetSelf(a, self)
    /\ pc' = [pc EXCEPT ![a] = "filtering"]
    /\ UNCHANGED <<logger, queries, returned, displayed>>

\* Step 4: Filtering
Filtering(a) ==
    /\ pc[a] = "filtering"
    /\ \E self \in {StepFiltering(Self(a))} : SetSelf(a, self)
    /\ pc' = [pc EXCEPT ![a] = "ranking"]
    /\ UNCHANGED <<logger, queries, returned, displayed>>

\* Step 5: Ranking with utility function
Ranking(a) ==
    /\ pc[a] = "ranking"
    /\ \E self \in {StepRanking(Self(a))} : SetSelf(a, self)
    /\ pc' = [pc EXCEPT ![a] = "complete"]
    /\ UNCHANGED <<logger, queries, returned, displayed>>

\* Step 6: Complete, and the return of search()
Complete(a) ==
    /\ pc[a] = "complete"
    /\ \E self \in {StepComplete(Self(a))} :
           /\ SetSelf(a, self)
           /\ returned' = [returned EXCEPT ![a] = Append(@, self.ranked_results)]
    /\ pc' = [pc EXCEPT ![a] = "idle"]
    /\ UNCHANGED <<logger, queries, displayed>>

Next ==
    \E a \in Agents :
        \/ \E q \in Queries : SearchBegin(a, q)
        \/ NlpParsing(a)
        \/ ConstraintExtraction(a)
        \/ DataRetrieval(a)
        \/ Filtering(a)
        \/ Ranking(a)
        \/ Complete(a)

Spec == Init /\ [][Next]_vars


(***************************************************************************)
(* PART 6: RestaurantAgent.display_results and the callers of              *)
(* src/test_searches.py, which make an agent, call search once and then    *)
(* display_results                                                          *)
(***************************************************************************)
\* the lines of one print call after another
RECURSIVE Concat(_)
Concat(lists) ==
    Let(lists, LAMBDA ls :
        IF ls = <<>> THEN <<>> ELSE Head(ls) \o Concat(Tail(ls)))

\* lines 468-481: what is printed for an item before its total cost is
\* computed ("[summary]" stands for the clipboard sign U+1F4CB of the source)
DisplayHead(idx, x, c) ==
    <<"\n" \o Rule,
      "RANK #" \o IntToStr(idx) \o " - " \o x.restaurant.name
          \o " (Utility Score: " \o ScoreStr(x.score) \o ")",
      Rule,
      "\n[summary] CONSTRAINT MATCH SUMMARY:">>
    \o Let(matches_constraints(x.restaurant, c).reasons, LAMBDA reasons :
           [i \in 1..Len(reasons) |-> "  " \o reasons[i]])
    \o <<"\n Location: " \o x.restaurant.location,
         " Cuisine: " \o x.restaurant.cuisine,
         " Rating: " \o TenthsToStr(x.restaurant.rating) \o "/5.0">>

\* line 482: avg_price_per_person * party_size is a TypeError when party_size
\* is None
TotalCostRaises(c) == c.party_size = None

\* lines 483-491: what is printed for an item from its price on ("[idea]"
\* stands for the light bulb U+1F4A1 and "-" for the bullet U+2022)
DisplayTail(x, c) ==
    <<" Price: $" \o FloatToStr(Fin(x.restaurant.avg_price_per_person)) \o "/person ($"
          \o FloatToStr2f(total_cost(x.restaurant, c)) \o " for "
          \o IntToStr(Val(c.party_size)) \o ")",
      " Window Seating: " \o (IF x.restaurant.has_window_seating THEN "Yes" ELSE "No")>>
    \o (IF x.restaurant.window_view # <<>>
        THEN <<" View: " \o title(join(x.restaurant.window_view))>>
        ELSE <<>>)
    \o <<" Available: " \o OptStr(c.day) \o " at " \o OptStr(c.time),
         "\n[idea] RANKING EXPLANATION:">>
    \o [i \in 1..Len(x.explanation) |-> "  - " \o x.explanation[i]]

\* lines 467-491: the loop over self.ranked_results from item idx on
RECURSIVE DisplayLoop(_, _, _)
DisplayLoop(ranked, c, from) ==
    Let(from, LAMBDA idx :
        IF idx > Len(ranked) THEN [raised |-> FALSE, printed |-> <<>>]
        ELSE IF TotalCostRaises(c)
             THEN [raised |-> TRUE, printed |-> DisplayHead(idx, ranked[idx], c)]
             ELSE Let(DisplayLoop(ranked, c, idx + 1), LAMBDA rest :
                      [raised |-> rest.raised,
                       printed |-> DisplayHead(idx, ranked[idx], c)
                                   \o DisplayTail(ranked[idx], c) \o rest.printed]))

\* RestaurantAgent.display_results: whether it raised, and what it printed
\* until then
display_results(self) ==
    Let(<<"\n" \o Rule, "FINAL RANKED RECOMMENDATIONS", Rule>>, LAMBDA banner :
        IF self.ranked_results = <<>>
        THEN [raised |-> FALSE,
              printed |-> banner \o <<"\n No restaurants found matching all criteria.">>]
        ELSE Let(DisplayLoop(self.ranked_results, Val(self.constraints), 1), LAMBDA loop :
                 [raised |-> loop.raised, printed |-> banner \o loop.printed]))

\* query texts: those of src/test_searches.py, and texts a user can type at
\* the prompt of interactive_search
TestQueries ==
    { "Turkish restaurant in Downtown Baltimore",
      "Turkish restaurant for 2 people under $50",
      FullSpecification,
      "Turkish restaurant in Downtown Baltimore for 2 under $65",
      "Turkish restaurant for 2 people under $30",
      "Italian restaurant in Downtown Baltimore",
      "Turkish restaurant in Downtown Baltimore for 2 under $70",
      "Turkish restaurant for 2 under $60",
      "Turkish restaurant for 4 under $100",
      "Turkish restaurant in Downtown Baltimore for 2 under $65 on Thursday at 7:30 pm",
      "somewhere nice tonight",
      "dinner on Friday at 7:00 pm",
      "a table near a window for 4 people",
      "dinner for 2 people under $0",
      "dinner for 0 people under $50",
      "dinner for 2 people under $" \o Nines310,
      "a table for ² people" }

\* the agent a test makes
TestAgent == "agent1"

\* a test calls search on the agent it has just made
TestSearch(q) ==
    /\ queries[TestAgent] = <<>>
    /\ SearchBegin(TestAgent, q)

\* agent.display_results(), called after each search() that has returned
Display(a) ==
    /\ pc[a] = "idle"
    /\ Len(displayed[a]) < Len(returned[a])
    /\ displayed' = [displayed EXCEPT ![a] = Append(@, display_results(Self(a)))]
    /\ UNCHANGED <<state, constraints, database, candidates, filtered_results,
                   ranked_results, log, logger, pc, queries, returned>>

TestNext ==
    \/ \E q \in TestQueries : TestSearch(q)
    \/ NlpParsing(TestAgent)
    \/ ConstraintExtraction(TestAgent)
    \/ DataRetrieval(TestAgent)
    \/ Filtering(TestAgent)
    \/ Ranking(TestAgent)
    \/ Complete(TestAgent)
    \/ Display(TestAgent)

TestSpec == Init /\ [][TestNext]_vars

(***************************************************************************)
(* PART 7: searches against other catalogs. self.database is a plain       *)
(* attribute that search() reads (lines 359-360): a caller that assigns a  *)
(* list of Restaurant objects to it after construction has search() run    *)
(* against that list.                                                      *)
(***************************************************************************)
\* the venues the catalogs are made of: three venues of the built-in catalog,
\* a second branch of the first under another name, and a venue whose rating
\* and distance differ from the first's and add up to the same score
IstanbulGrill == create_mock_database[1]
AnatolianKitchen == create_mock_database[2]
BosphorusCafe == create_mock_database[3]
IstanbulGrillII == [IstanbulGrill EXCEPT !.name = "Istanbul Grill II"]
OttomanCorner ==
    [IstanbulGrill EXCEPT !.name = "Ottoman Corner", !.rating = 40,
                          !.distance_from_center = 0]
Venues == {IstanbulGrill, IstanbulGrillII, OttomanCorner, AnatolianKitchen, BosphorusCafe}

\* the longest catalog a caller assigns
MaxCatalog == 3

\* the lists of at most MaxCatalog venues, no venue twice
RECURSIVE ListsOf(_)
ListsOf(n) ==
    IF n = 0 THEN {<<>>}
    ELSE Let(ListsOf(n - 1), LAMBDA shorter :
             shorter \cup {Append(l, v) : l \in {s \in shorter : Len(s) = n - 1},
                                          v \in Venues})
NoVenueTwice(l) == \A i, j \in 1..Len(l) : l[i] = l[j] => i = j
Catalogs == {l \in ListsOf(MaxCatalog) : NoVenueTwice(l)}

\* the queries run against them
CatalogQueries ==
    { "Turkish restaurant for 2 people under $65",
      "a table near a window for 4 people",
      "somewhere nice tonight",
      "dinner for 2 people under $" \o Nines310 }

\* agent = RestaurantAgent(); agent.database = catalog
CatalogInit ==
    /\ \E catalog \in Catalogs :
           database = [a \in Agents |-> IF a = TestAgent THEN catalog
                                        ELSE NewAgent.database]
    /\ state = [a \in Agents |-> NewAgent.state]
    /\ log = [a \in Agents |-> NewAgent.log]
    /\ constraints = [a \in Agents |-> NewAgent.constraints]
    /\ candidates = [a \in Agents |-> NewAgent.candidates]
    /\ filtered_results = [a \in Agents |-> NewAgent.filtered_results]
    /\ ranked_results = [a \in Agents |-> NewAgent.ranked_results]
    /\ logger = [a \in Agents |-> <<>>]
    /\ pc = [a \in Agents |-> "idle"]
    /\ queries = [a \in Agents |-> <<>>]
    /\ returned = [a \in Agents |-> <<>>]
    /\ displayed = [a \in Agents |-> <<>>]

CatalogNext ==
    \/ \E q \in CatalogQueries : TestSearch(q)
    \/ NlpParsing(TestAgent)
    \/ ConstraintExtraction(TestAgent)
    \/ DataRetrieval(TestAgent)
    \/ Filtering(TestAgent)
    \/ Ranking(TestAgent)
    \/ Complete(TestAgent)

CatalogSpec == CatalogInit /\ [][CatalogNext]_vars

(***************************************************************************)
(* Properties of the search pipeline                                       *)
(***************************************************************************)
Last(s) == s[Len(s)]
IsPrefix(p, s) == Len(p) <= Len(s) /\ SubSeq(s, 1, Len(p)) = p
IsIn(x, s) == \E i \in 1..Len(s) : s[i] = x
Max(S) == CHOOSE x \in S : \A y \in S : x >= y

\* an agent's last search() call has returned
Returned(a) == pc[a] = "idle" /\ queries[a] # <<>>
\* the filter loop of an agent's current search() call has run
FilterDone(a) == pc[a] \in {"ranking", "complete"} \/ Returned(a)
\* the positions inside a search() call
InFlight == {"parsing", "extraction", "retrieval", "filtering", "ranking", "complete"}

\* the transition entries of a trace, in order
TransitionPrefix == "[STATE] State transition: "
IsTransition(entry) == IsPrefix(TransitionPrefix, entry)
Transitions(trace) == SelectSeq(trace, IsTransition)
\* the entries of a trace after its last transition entry
AfterLastTransition(trace) ==
    SubSeq(trace, Max({i \in 1..Len(trace) : IsTransition(trace[i])}) + 1, Len(trace))

\* the six transition entries of the linear order of SearchState
LinearTransitions ==
    [i \in 1..(Len(SearchState) - 1) |-> TransitionEntry(SearchState[i], SearchState[i + 1])]
\* t is the immediate successor of s in SearchState
Successor(s, t) ==
    \E i \in 1..(Len(SearchState) - 1) : SearchState[i] = s /\ SearchState[i + 1] = t

\* search(q) run alone on a freshly constructed agent: the agent at each
\* position of the call ("idle": after the return)
Alone(q) ==
    Let(StepStart(NewAgent), LAMBDA s1 :
    Let(StepParse(s1, <<>>, q), LAMBDA p :
        IF p.raised THEN [parsing |-> s1, raised |-> p.self]
        ELSE
        Let(StepExtraction(p.self), LAMBDA s3 :
        Let(StepRetrieval(s3), LAMBDA s4 :
        Let(StepFiltering(s4), LAMBDA s5 :
        Let(StepRanking(s5), LAMBDA s6 :
            [parsing |-> s1, extraction |-> p.self, retrieval |-> s3, filtering |-> s4,
             ranking |-> s5, complete |-> s6, idle |-> StepComplete(s6)]))))))
AloneTable == [q \in Queries |-> Alone(q)]
\* parse(q) on a parser that has parsed nothing before
ParseTable == [q \in Queries |-> parse(q)]

\* the catalog venues that pass the predicate under an agent's constraints
Passing(a) ==
    SelectSeq(database[a], LAMBDA r : matches_constraints(r, Val(constraints[a])).matches)

\* a >= b on floats
FloatGe(a, b) ==
    CASE a.k = "nan" \/ b.k = "nan" -> FALSE
      [] a.k = "inf" -> TRUE
      [] b.k = "inf" -> FALSE
      [] OTHER -> a.v >= b.v

\* C1: once the filter loop of a search has run, the filtered list is exactly
\* the catalog venues for which matches_constraints is true, each once and in
\* catalog order, and no venue for which it is false is in the ranked or the
\* returned results.
C1_FilteredIsExactlyThePassingVenues ==
    \A a \in Agents : FilterDone(a) =>
        LET passing == Passing(a)
        IN  /\ filtered_results[a] = passing
            /\ pc[a] # "ranking" =>
                   \A i \in 1..Len(ranked_results[a]) :
                       IsIn(ranked_results[a][i].restaurant, passing)
            /\ Returned(a) =>
                   \A i \in 1..Len(Last(returned[a])) :
                       IsIn(Last(returned[a])[i].restaurant, passing)

\* C1 witness: a search has returned that kept at least two venues and
\* dropped at least one.
C1_Witness ==
    \E a \in Agents :
        /\ Returned(a)
        /\ Len(filtered_results[a]) >= 2
        /\ Len(filtered_results[a]) < Len(database[a])
        /\ Len(Last(returned[a])) = Len(filtered_results[a])

\* C2: every list search has returned is sorted by utility score in
\* descending order: of two adjacent results the first's score is >= the
\* second's.
C2_ReturnedSortedDescending ==
    \A a \in Agents : \A k \in 1..Len(returned[a]) :
        \A i \in 1..(Len(returned[a][k]) - 1) :
            FloatGe(returned[a][k][i].score, returned[a][k][i + 1].score)

\* C3: the first search on a freshly constructed agent makes the six
\* transitions of the linear order and nothing else, and when the call has
\* ended the agent has made all six and is in COMPLETE, whatever the query.
C3_FreshSearchEndsInComplete ==
    \A a \in Agents : Len(queries[a]) = 1 =>
        /\ IsPrefix(Transitions(log[a]), LinearTransitions)
        /\ pc[a] \notin InFlight =>
               /\ state[a] = COMPLETE
               /\ Transitions(log[a]) = LinearTransitions

\* the entries a step appends to an agent's trace
Appended(a) == SubSeq(log'[a], Len(log[a]) + 1, Len(log'[a]))

C6_InterleavedSearchIsTheSearchAlone ==
    \A a \in Agents : Len(queries[a]) = 1 =>
        /\ Self(a) = AloneTable[query(a)][pc[a]]
        /\ pc[a] # "parsing" => logger[a] = ParseTable[query(a)].logged
        /\ Returned(a) => returned[a] = <<AloneTable[query(a)]["idle"].ranked_results>>

\* C6 witness: two agents are inside their searches at the same time, with
\* different queries, both past the filter loop.
C6_Witness ==
    \E a, b \in Agents :
        /\ a # b
        /\ pc[a] = "complete"
        /\ pc[b] = "ranking"
        /\ query(a) # query(b)
        /\ ranked_results[a] # <<>>
        /\ filtered_results[b] # filtered_results[a]

\* C7: when a later search on an agent has returned, the agent's constraints,
\* candidates, filtered list and ranked results, and the list returned, are
\* those of the same query run alone on a fresh agent.
C7_ReinvocationEqualsFreshSearch ==
    \A a \in Agents : (Returned(a) /\ Len(queries[a]) >= 2) =>
        /\ constraints[a] = AloneTable[query(a)]["idle"].constraints
        /\ candidates[a] = AloneTable[query(a)]["idle"].candidates
        /\ filtered_results[a] = AloneTable[query(a)]["idle"].filtered_results
        /\ ranked_results[a] = AloneTable[query(a)]["idle"].ranked_results
        /\ Last(returned[a]) = AloneTable[query(a)]["idle"].ranked_results

\* C7 witness: a second search on an agent has returned, after a first search
\* that kept venues the second does not keep.
C7_Witness ==
    \E a \in Agents :
        /\ Returned(a)
        /\ Len(returned[a]) >= 2
        /\ \E i \in 1..Len(returned[a][1]) :
               ~IsIn(returned[a][1][i].restaurant, filtered_results[a])

\* C8: when the parsing step of a search is done, the entries of the agent's
\* trace after the NLP_PARSING transition entry are exactly the entries of
\* parsing that search's query: one 'Parsing query' entry and one entry per
\* extraction.
C8_OneParserTracePerInvocation ==
    \A a \in Agents : pc[a] = "extraction" =>
        AfterLastTransition(log[a]) = ParseTable[query(a)].logged

\* C9: under constraints with every field unset, matches_constraints returns
\* (true, []) for every venue of the catalog, and a search that has returned
\* with such constraints has returned every catalog venue, each once.
C9_UnsetConstraintsMatchEveryVenue ==
    \A a \in Agents : constraints[a] = Some(Constraints) =>
        /\ \A i \in 1..Len(database[a]) :
               matches_constraints(database[a][i], Val(constraints[a]))
                   = [matches |-> TRUE, reasons |-> <<>>]
        /\ Returned(a) =>
               /\ Len(Last(returned[a])) = Len(database[a])
               /\ \A i \in 1..Len(database[a]) :
                      \E j \in 1..Len(Last(returned[a])) :
                          Last(returned[a])[j].restaurant = database[a][i]

\* C9 witness: a search whose query yields no constraint has returned, with
\* a result for each of the six venues.
C9_Witness ==
    \E a \in Agents :
        /\ Returned(a)
        /\ constraints[a] = Some(Constraints)
        /\ database[a] # <<>>
        /\ Len(Last(returned[a])) = Len(database[a])

\* the price reason of a venue that is over budget
IsPriceFailure(reason) == IsPrefix(FailMark \o " Price:", reason)

\* C10: under constraints with price_max and party_size both set, for every
\* venue with avg_price_per_person * party_size > price_max,
\* matches_constraints returns false and one of its reasons is a price reason
\* that begins with the fail mark.
C10_OverBudgetVenueFailsWithPriceReason ==
    \A a \in Agents :
        (/\ constraints[a] # None
         /\ Val(constraints[a]).price_max # None
         /\ Val(constraints[a]).party_size # None) =>
            \A i \in 1..Len(database[a]) :
                FloatLt(Val(Val(constraints[a]).price_max),
                        total_cost(database[a][i], Val(constraints[a]))) =>
                    /\ ~matches_constraints(database[a][i], Val(constraints[a])).matches
                    /\ \E j \in 1..Len(matches_constraints(database[a][i],
                                                            Val(constraints[a])).reasons) :
                           IsPriceFailure(matches_constraints(database[a][i],
                                                              Val(constraints[a])).reasons[j])

\* C11: in every constraint model the parser has produced, price_max is
\* either unset or strictly greater than 0.
C11_PriceMaxUnsetOrPositive ==
    \A a \in Agents :
        (constraints[a] # None /\ Val(constraints[a]).price_max # None) =>
            FloatLt(Fin(0), Val(Val(constraints[a]).price_max))

\* a search of the full-specification query is past its parsing step
FullSpecificationParsed(a) ==
    /\ queries[a] # <<>>
    /\ query(a) = FullSpecification
    /\ pc[a] # "parsing"
\* the names of the venues of a result list
Names(results) == {results[i].restaurant.name : i \in 1..Len(results)}

\* C12: for the full-specification query the parser yields party_size 2,
\* price_max 65, day "Thursday", time "7:30 pm" and a window request; every
\* venue the search returns has the "7:30 pm" slot on Thursday, has window
\* seating with a non-empty view and costs at most 65 for two; "Istanbul
\* Grill" and "Anatolian Kitchen" are both returned.
C12_FullSpecificationScenario ==
    \A a \in Agents : FullSpecificationParsed(a) =>
        /\ constraints[a] # None
        /\ Val(constraints[a]).party_size = Some(2)
        /\ Val(constraints[a]).price_max = Some(Fin(65))
        /\ Val(constraints[a]).day = Some("Thursday")
        /\ Val(constraints[a]).time = Some("7:30 pm")
        /\ \E i \in 1..Len(Val(constraints[a]).special_requests) :
               Contains(Val(constraints[a]).special_requests[i], "window")
        /\ Returned(a) =>
               /\ \A i \in 1..Len(Last(returned[a])) :
                      LET r == Last(returned[a])[i].restaurant
                      IN  /\ IsIn("7:30 pm", r.availability["Thursday"])
                          /\ r.has_window_seating
                          /\ r.window_view # <<>>
                          /\ r.avg_price_per_person * 2 <= 65
               /\ {"Istanbul Grill", "Anatolian Kitchen"} \subseteq Names(Last(returned[a]))

\* C12 witness: a search of the full-specification query has returned, with
\* venues in its result.
C12_Witness ==
    \E a \in Agents :
        /\ FullSpecificationParsed(a)
        /\ Returned(a)
        /\ Len(Last(returned[a])) >= 2

\* the query of scenario A (test_basic_search)
ScenarioA == "Turkish restaurant in Downtown Baltimore"
\* the search of scenario A has returned
ScenarioAReturned(a) == Returned(a) /\ query(a) = ScenarioA
\* the Turkish venues of the catalog located in "Downtown Baltimore, MD"
TurkishDowntown(a) ==
    {i \in 1..Len(database[a]) :
        /\ database[a][i].cuisine = "Turkish"
        /\ database[a][i].location = "Downtown Baltimore, MD"}
\* a venue passes the cuisine check and the location check
PassesCuisineAndLocation(r, c) ==
    /\ Len(CuisineCheck(r, c)) = 1 /\ CuisineCheck(r, c)[1].ok
    /\ Len(LocationCheck(r, c)) = 1 /\ LocationCheck(r, c)[1].ok
\* every Turkish venue of Downtown Baltimore passes the two checks and is
\* returned; "Turkish Delight" of Harbor East fails the location check and is
\* not returned
ScenarioAOutcome(a) ==
    /\ \A i \in TurkishDowntown(a) :
           /\ PassesCuisineAndLocation(database[a][i], Val(constraints[a]))
           /\ database[a][i].name \in Names(Last(returned[a]))
    /\ \E i \in 1..Len(database[a]) :
           /\ database[a][i].name = "Turkish Delight"
           /\ database[a][i].cuisine = "Turkish"
           /\ Len(LocationCheck(database[a][i], Val(constraints[a]))) = 1
           /\ ~LocationCheck(database[a][i], Val(constraints[a]))[1].ok
    /\ "Turkish Delight" \notin Names(Last(returned[a]))

\* C13 as stated: when the search of "Turkish restaurant in Downtown
\* Baltimore" has returned, the catalog holds five Turkish venues located in
\* "Downtown Baltimore, MD", all five pass the cuisine and location checks and
\* are returned, and "Turkish Delight" fails the location check and is not
\* returned.
C13_FiveTurkishDowntownVenuesReturned ==
    \A a \in Agents : ScenarioAReturned(a) =>
        /\ Cardinality(TurkishDowntown(a)) = 5
        /\ ScenarioAOutcome(a)

\* C13 amended: when the search of "Turkish restaurant in Downtown Baltimore"
\* has returned, the catalog holds four Turkish venues located in "Downtown
\* Baltimore, MD" (Istanbul Grill, Anatolian Kitchen, Bosphorus Cafe, Sultan's
\* Table); all four pass the cuisine and location checks and they are exactly
\* the venues returned; "Turkish Delight" fails the location check and is not
\* returned.
C13_FourTurkishDowntownVenuesReturned ==
    \A a \in Agents : ScenarioAReturned(a) =>
        /\ Cardinality(TurkishDowntown(a)) = 4
        /\ ScenarioAOutcome(a)
        /\ Len(Last(returned[a])) = 4
        /\ Names(Last(returned[a])) =
               {"Istanbul Grill", "Anatolian Kitchen", "Bosphorus Cafe", "Sultan's Table"}

\* C13 witness: the search of scenario A has returned with results.
C13_Witness ==
    \E a \in Agents : ScenarioAReturned(a) /\ Last(returned[a]) # <<>>

\* C14: after a completed search, display_results runs to completion without
\* raising, whatever the query sets or leaves unset and whether the result
\* list is empty or not.
C14_DisplayResultsNeverRaises ==
    \A a \in Agents : \A k \in 1..Len(displayed[a]) : ~displayed[a][k].raised

\* the constraint groups that are set in a constraint model, in the order
\* cuisine, location, price, availability, window/view
SetGroups(c) ==
    (IF c.cuisine # None THEN <<"cuisine">> ELSE <<>>)
    \o (IF c.location # None THEN <<"location">> ELSE <<>>)
    \o (IF c.price_max # None /\ c.party_size # None THEN <<"price">> ELSE <<>>)
    \o (IF c.day # None /\ c.time # None THEN <<"availability">> ELSE <<>>)
    \o (IF \E i \in 1..Len(c.special_requests) : Contains(c.special_requests[i], "window")
        THEN <<"window">> ELSE <<>>)
\* a reason string carries the pass mark or the fail mark
IsPassTagged(reason) == IsPrefix(PassMark \o " ", reason)
IsFailTagged(reason) == IsPrefix(FailMark \o " ", reason)
\* the text of a reason string after its mark
Untagged(reason) == SubSeq(reason, Len(PassMark) + 1, Len(reason))
\* a reason string is the entry of a constraint group
IsReasonOf(group, reason) ==
    /\ IsPassTagged(reason) \/ IsFailTagged(reason)
    /\ CASE group = "cuisine" -> IsPrefix(" Cuisine:", Untagged(reason))
         [] group = "location" -> IsPrefix(" Location:", Untagged(reason))
         [] group = "price" -> IsPrefix(" Price:", Untagged(reason))
         [] group = "availability" -> \/ IsPrefix(" Available:", Untagged(reason))
                                      \/ IsPrefix(" Not available:", Untagged(reason))
         [] group = "window" -> \/ IsPrefix(" Window seating:", Untagged(reason))
                                \/ IsPrefix(" No window seating", Untagged(reason))

\* C15: for every catalog venue and every constraint model a search has
\* extracted, the reasons of matches_constraints are one entry for each set
\* constraint group and none for an unset one, in the order cuisine, location,
\* price, availability, window/view, and the match is true exactly when no
\* entry is fail-tagged.
C15_OneReasonPerSetGroup ==
    \A a \in Agents : (constraints[a] # None /\ pc[a] # "parsing") =>
        \A i \in 1..Len(database[a]) :
            LET c == Val(constraints[a])
                m == matches_constraints(database[a][i], c)
            IN  /\ Len(m.reasons) = Len(SetGroups(c))
                /\ \A j \in 1..Len(m.reasons) : IsReasonOf(SetGroups(c)[j], m.reasons[j])
                /\ m.matches <=> (\A j \in 1..Len(m.reasons) : ~IsFailTagged(m.reasons[j]))

\* C17: for every venue that reaches the ranker in a search whose constraints
\* have price_max and party_size set, the price term added to its score is a
\* number in [0, 20], and computing it does not divide by zero.
C17_PriceTermWithinZeroAndTwenty ==
    \A a \in Agents :
        (/\ FilterDone(a)
         /\ Val(constraints[a]).price_max # None
         /\ Val(constraints[a]).party_size # None
         /\ PriceGuard(Val(constraints[a]))) =>
            \A i \in 1..Len(filtered_results[a]) :
                LET term == price_term(filtered_results[a][i], Val(constraints[a]))
                IN  /\ term.k = "fin"
                    /\ term.den # 0
                    /\ 0 <= term.num
                    /\ term.num <= 20 * term.den

\* the ranker of an agent's current search() call has run
RankDone(a) == pc[a] = "complete" \/ Returned(a)
\* two utility scores are equal, as == compares floats: nan equals nothing
FloatEq(a, b) == a.k = b.k /\ a.k # "nan" /\ a.v = b.v
\* how often a venue occurs in a list of venues
Occurrences(r, list) == Cardinality({i \in 1..Len(list) : list[i] = r})
\* the venues of a result list, in order
VenuesOf(results) == [i \in 1..Len(results) |-> results[i].restaurant]
\* the first position of a venue in a list of venues
PositionIn(r, list) == Min({i \in 1..Len(list) : list[i] = r})

\* C16: once the ranker has run, the ranked list is a permutation of the
\* filtered list (every filtered venue once, no other venue), and two venues
\* with equal utility scores are in the ranked list in the order they have in
\* the filtered list, which is their order in the catalog.
C16_RankedIsAStablePermutation ==
    \A a \in Agents : RankDone(a) =>
        LET filtered == filtered_results[a]
            ranked == ranked_results[a]
        IN  /\ Len(ranked) = Len(filtered)
            /\ \A i \in 1..Len(filtered) :
                   Occurrences(filtered[i], VenuesOf(ranked)) = Occurrences(filtered[i], filtered)
            /\ \A j \in 1..Len(ranked) : IsIn(ranked[j].restaurant, filtered)
            /\ \A i, j \in 1..Len(ranked) :
                   (i < j /\ FloatEq(ranked[i].score, ranked[j].score)) =>
                       /\ PositionIn(ranked[i].restaurant, filtered)
                              < PositionIn(ranked[j].restaurant, filtered)
                       /\ PositionIn(ranked[i].restaurant, database[a])
                              < PositionIn(ranked[j].restaurant, database[a])
            /\ Returned(a) => Last(returned[a]) = ranked

\* C16 witness: a search has returned three venues of which the sort moved
\* one, and two of them that differ in rating and distance have equal scores.
C16_Witness ==
    \E a \in Agents :
        /\ Returned(a)
        /\ Len(ranked_results[a]) = 3
        /\ VenuesOf(ranked_results[a]) # filtered_results[a]
        /\ \E i, j \in 1..3 :
               /\ i < j
               /\ FloatEq(ranked_results[a][i].score, ranked_results[a][j].score)
               /\ ranked_results[a][i].restaurant.rating
                      # ranked_results[a][j].restaurant.rating

====
